---------------------------- MODULE Spec2Model ----------------------------
(***************************************************************************)
(* Model of the tokamak physics core: the analytic kernels and             *)
(* advance_plasma_state of deepseek_c_20251223_1ccfe5.c, with the          *)
(* configuration of deepseek_c_20251223_6364bc.c (npe_config.h).           *)
(*                                                                         *)
(* Numbers.  A C float is modelled as a fixed-point integer: the integer   *)
(* v stands for the real v / Scale.  Products and quotients round to the   *)
(* nearest representable value (Mul, Div), as float arithmetic does.       *)
(* Powers of ten that the code multiplies in and out again (1e6, 1e19,     *)
(* 1e-27 ...) are folded into the unit of the quantity they scale; every   *)
(* definition says which unit it uses.                                     *)
(***************************************************************************)
EXTENDS Integers, Sequences, FiniteSets

VARIABLES
    state,        \* PlasmaState *state, as left by the last call
    control,      \* PlasmaControlSystem *control
    prev,         \* *state as it was when the last call began
    prevControl,  \* *control as it was when the last call began
    dtIn,         \* dt of the last call
    randIn,       \* value rand() returned in the last call
    calls,        \* number of advance_plasma_state calls made
    stable,       \* every call so far had dt <= energy_confinement_time / 2 and dt <= tau_p / 2
    kernel        \* the last kernel call: its name, arguments and result

vars == <<state, control, prev, prevControl, dtIn, randIn, calls, stable, kernel>>

---------------------------------------------------------------------------
(* Bounds of the model *)

\* number of advance_plasma_state calls in one behaviour
MaxCalls == 2

\* rand() returns 0 .. RAND_MAX; the C library's RAND_MAX is modelled small
RAND_MAX == 1

---------------------------------------------------------------------------
(* Fixed-point arithmetic standing for float arithmetic *)

\* resolution: 1 / Scale
Scale == 10 * 10 * 10

Abs(x) == IF x < 0 THEN -x ELSE x

\* float product a * b, rounded to nearest; the larger operand is split so
\* that no intermediate exceeds the integer range
MulSplit(a, b) == (a \div Scale) * b + ((a % Scale) * b + Scale \div 2) \div Scale

Mul(a, b) == IF Abs(a) >= Abs(b) THEN MulSplit(a, b) ELSE MulSplit(b, a)

\* float quotient a / b for b > 0, rounded to nearest
DivPos(a, b) == (a \div b) * Scale + ((a % b) * Scale + b \div 2) \div b

\* float quotient a / b, b # 0
Div(a, b) == IF b < 0 THEN DivPos(-a, -b) ELSE DivPos(a, b)

\* fabsf
fabsf(x) == Abs(x)

RECURSIVE IsqrtIter(_, _)
IsqrtIter(n, x) ==
    LET y == (x + n \div x) \div 2
    IN  IF y >= x THEN x ELSE IsqrtIter(n, y)

\* largest integer whose square is at most n, by Newton's iteration from
\* above (46341 exceeds the root of every representable integer)
Isqrt(n) == IF n <= 0 THEN 0 ELSE IsqrtIter(n, IF n < 46341 THEN n ELSE 46341)

\* sqrtf: below SqrtFine the radicand keeps full resolution, above it the
\* last digit is dropped before the root is taken
SqrtFine == 2000 * Scale

sqrtf(x) ==
    IF x <= SqrtFine THEN Isqrt(x * Scale) ELSE Isqrt(x \div 10) * 100

\* M_PI of <math.h>
M_PI == 3142

\* expf for x <= 0, by halving the argument until the cubic Taylor
\* polynomial is accurate, then squaring back; expf(0) = 1 exactly
RECURSIVE expf(_)
expf(x) ==
    IF x > -125
    THEN Scale + x + Mul(x, x) \div 2 + Mul(Mul(x, x), x) \div 6
    ELSE LET h == expf(-((-x) \div 2)) IN Mul(h, h)

\* sine on [0, pi/2] by its Taylor polynomial to the ninth power
SinTaylor(x) ==
    LET x2 == Mul(x, x)
        x3 == Mul(x2, x)
        x5 == Mul(x3, x2)
        x7 == Mul(x5, x2)
        x9 == Mul(x7, x2)
        s  == x - x3 \div 6 + x5 \div 120 - x7 \div 5040 + x9 \div 362880
    IN  IF s > Scale THEN Scale ELSE IF s < 0 THEN 0 ELSE s

\* sinf: the argument is brought into [0, 2 pi), then into [0, pi/2] by
\* the symmetries of the sine; the result lies in [-1, 1]
sinf(x) ==
    LET t == x % (2 * M_PI)
    IN  IF t <= M_PI \div 2 THEN SinTaylor(t)
        ELSE IF t <= M_PI THEN SinTaylor(M_PI - t)
        ELSE IF t <= M_PI + M_PI \div 2 THEN -SinTaylor(t - M_PI)
        ELSE -SinTaylor(2 * M_PI - t)

---------------------------------------------------------------------------
(* npe_config.h *)

TOKAMAK_MAJOR_RADIUS == 1800
TOKAMAK_MINOR_RADIUS == 600
TOKAMAK_TOROIDAL_FIELD == 5300
SAFETY_FACTOR_Q95_MIN == 3000
BETA_NORMAL_LIMIT == 3500
VERTICAL_DISPLACEMENT_MAX == 150
NUM_PF_COILS == 10
NUM_VERTICAL_COILS == 4
NUM_HORIZONTAL_COILS == 4
NUM_HEATING_SYSTEMS == 3

\* the enum of controller_state
ControllerStates ==
    {"PSQ_STATE_INIT", "PSQ_STATE_RAMP_UP", "PSQ_STATE_FLAT_TOP",
     "PSQ_STATE_RAMP_DOWN", "PSQ_STATE_DISRUPTION", "PSQ_STATE_MITIGATION",
     "PSQ_STATE_SAFE_SHUTDOWN"}

---------------------------------------------------------------------------
(* Constants of the physics file *)

\* MU0 = 4e-7 * pi H/m, here in microhenry per metre (MU0 * 1e6)
MU0 == 1257

\* ELECTRON_CHARGE * 1e19
ELECTRON_CHARGE == 1602

\* (PROTON_MASS + ELECTRON_MASS) * 1e19 kg, here in micrograms (* 1e9)
PROTON_ELECTRON_MASS == 16739

\* 1e19 * 1.602e-16 J per keV: the pressure of calculate_beta in kilopascal
KEV_PRESSURE == 1602

---------------------------------------------------------------------------
(* Physics kernels *)

\* float r = sqrtf((R - R0)*(R - R0) + Z*Z) / a of grad_shafranov_solution
normalized_radius(R, Z) ==
    LET a  == TOKAMAK_MINOR_RADIUS
        R0 == TOKAMAK_MAJOR_RADIUS
    IN  Div(sqrtf(Mul(R - R0, R - R0) + Mul(Z, Z)), a)

\* grad_shafranov_solution without the return at the boundary
grad_shafranov_solution_unbounded(R, Z, params) ==
    LET r == normalized_radius(R, Z)
    IN  Mul(params[1], Scale - Mul(r, r))

\* float grad_shafranov_solution(float R, float Z, float *params);
\* params is the array, params[1] its first element
grad_shafranov_solution(R, Z, params) ==
    LET r == normalized_radius(R, Z)
    IN  IF r >= Scale THEN 0
        ELSE Mul(params[1], Scale - Mul(r, r))

\* float safety_factor_profile(float r_normalized, PlasmaState *state);
\* I_p = plasma_current * 1e6 ampere and MU0 in microhenry per metre: the
\* two factors 1e6 cancel in MU0 * R0 * I_p
safety_factor_profile(r_normalized, s) ==
    LET R0 == TOKAMAK_MAJOR_RADIUS
        B_toroidal == TOKAMAK_TOROIDAL_FIELD
        I_p == s.plasma_current
        q == Div(Mul(Mul(Mul(Mul(Mul(Mul(2 * Scale, M_PI), B_toroidal),
                                 r_normalized), r_normalized),
                         TOKAMAK_MINOR_RADIUS), TOKAMAK_MINOR_RADIUS),
                 Mul(Mul(MU0, R0), I_p))
    IN  Mul(q, Scale + Mul(Mul(Scale \div 2, r_normalized), r_normalized))

\* float calculate_beta(PlasmaState *state); pressure_avg in kilopascal,
\* the result in thousandths (MU0 in microhenry per metre times kilopascal)
calculate_beta(s) ==
    LET pressure_avg ==
            Div(Mul(Mul(s.density_core, s.temperature_core), KEV_PRESSURE),
                3 * Scale)
        B_poloidal ==
            Div(Mul(MU0, s.plasma_current),
                Mul(Mul(2 * Scale, M_PI), TOKAMAK_MINOR_RADIUS))
        B_total ==
            sqrtf(Mul(TOKAMAK_TOROIDAL_FIELD, TOKAMAK_TOROIDAL_FIELD)
                  + Mul(B_poloidal, B_poloidal))
    IN  Div(Mul(Mul(2 * Scale, MU0), pressure_avg), Mul(B_total, B_total))

\* float calculate_beta_normalized(PlasmaState *state); calculate_beta is
\* in thousandths, so "* 100.0f" (to percent) is a division by ten here
calculate_beta_normalized(s) ==
    LET beta == Mul(calculate_beta(s), Scale \div 10)
    IN  Div(Mul(Mul(beta, TOKAMAK_MINOR_RADIUS), TOKAMAK_TOROIDAL_FIELD),
            s.plasma_current)

\* tau_TQ = 0.001f
TAU_TQ == 1

\* thermal_quench_model with the factor 0.5f of the impurity term left out
thermal_quench_model_full_impurity(time_since_onset, initial_energy, impurity_concentration) ==
    LET tau_TQ == TAU_TQ
        energy_loss == Mul(initial_energy, expf(Div(-time_since_onset, tau_TQ)))
    IN  Mul(energy_loss, Scale - impurity_concentration)

\* float thermal_quench_model(float time_since_onset, float initial_energy,
\*                            float impurity_concentration)
thermal_quench_model(time_since_onset, initial_energy, impurity_concentration) ==
    LET tau_TQ == TAU_TQ
        energy_loss == Mul(initial_energy, expf(Div(-time_since_onset, tau_TQ)))
    IN  Mul(energy_loss, Scale - Mul(Scale \div 2, impurity_concentration))

\* tau_CQ = 0.01f
TAU_CQ == 10

\* float current_quench_model(float time_since_TQ, float initial_current,
\*                            float plasma_resistance)
current_quench_model(time_since_TQ, initial_current, plasma_resistance) ==
    LET tau_CQ == TAU_CQ
        current == Mul(initial_current, expf(Div(-time_since_TQ, tau_CQ)))
    IN  Mul(current,
            Scale - Mul(Mul(Scale \div 10, plasma_resistance), time_since_TQ))

---------------------------------------------------------------------------
(* advance_plasma_state, section by section *)

\* Lp = 5.0e-7f henry, here in microhenry
LP == 500

\* Rp = 1.0e-6f ohm, here in microohm
RP == 1000

\* tau_p = 10.0f
TAU_P == 10000

\* damping = 0.1f
DAMPING == 100

\* float plasma_volume = 2 pi^2 R0 a^2 elongation
plasma_volume(s) ==
    Mul(Mul(Mul(Mul(Mul(Mul(2 * Scale, M_PI), M_PI), TOKAMAK_MAJOR_RADIUS),
                TOKAMAK_MINOR_RADIUS), TOKAMAK_MINOR_RADIUS),
        s.elongation)

\* "Current evolution".  Rp * plasma_current * 1e6 is in volt with Rp in
\* microohm and the current in megaampere; dIp_dt / 1e6 is in megaampere
\* per second with Lp in microhenry
CurrentEvolution(s, c, dt) ==
    LET V_loop == Mul(c.pf_coil_currents[1], Scale \div 10)
        dIp_dt == Div(V_loop - Mul(RP, s.plasma_current), LP)
    IN  [s EXCEPT !.plasma_current = s.plasma_current + Mul(dIp_dt, dt)]

\* the loop over heating_systems that sums the power of the enabled ones
RECURSIVE HeatingPowerFrom(_, _)
HeatingPowerFrom(c, i) ==
    IF i > NUM_HEATING_SYSTEMS THEN 0
    ELSE (IF c.heating_systems[i].enabled
          THEN c.heating_systems[i].power ELSE 0)
         + HeatingPowerFrom(c, i + 1)

\* P_heating summed over every heating system, enabled or not
P_heatingOfAll(c) ==
    c.heating_systems[1].power + c.heating_systems[2].power
    + c.heating_systems[3].power

P_heating(c) == HeatingPowerFrom(c, 1)

\* temperature_core = stored_energy * 1e6 /
\*     (1.5f * density_core * 1e19 * plasma_volume * ELECTRON_CHARGE * 1000.0f);
\* 1e6 / 1000.0f is the factor 1000 of the numerator and 1e19 is folded
\* into ELECTRON_CHARGE
CoreTemperature(stored_energy, density_core, volume) ==
    Div(Mul(stored_energy, 1000 * Scale),
        Mul(Mul(Mul(Scale + Scale \div 2, density_core), volume),
            ELECTRON_CHARGE))

\* EnergyBalance with the loss power taken as stored_energy times the
\* confinement time
EnergyBalanceLossTimesTau(s, c, dt) ==
    LET P_loss == Mul(s.stored_energy, c.energy_confinement_time)
        dW_dt  == P_heating(c) - P_loss
        W      == s.stored_energy + Mul(dW_dt, dt)
    IN  [s EXCEPT !.stored_energy = W,
                  !.temperature_core =
                      CoreTemperature(W, s.density_core, plasma_volume(s))]

\* "Energy balance", up to the assignment of temperature_core
EnergyBalance(s, c, dt) ==
    LET P_loss == Div(s.stored_energy, c.energy_confinement_time)
        dW_dt  == P_heating(c) - P_loss
        W      == s.stored_energy + Mul(dW_dt, dt)
    IN  [s EXCEPT !.stored_energy = W,
                  !.temperature_core =
                      CoreTemperature(W, s.density_core, plasma_volume(s))]

\* DensityEvolution with source and loss exchanged (S_out - S_in)
DensityEvolutionExchanged(s, c, dt) ==
    LET S_in  == c.fuel_injection_rate
        tau_p == TAU_P
        S_out == Div(Mul(s.density_core, plasma_volume(s)), tau_p)
        dn_dt == Div(S_out - S_in, plasma_volume(s))
    IN  [s EXCEPT !.density_core = s.density_core + Mul(dn_dt, dt)]

\* "Density evolution".  fuel_injection_rate, S_in and S_out are in units
\* of 1e19 particles per second, which the final "/ 1e19" cancels
DensityEvolution(s, c, dt) ==
    LET S_in  == c.fuel_injection_rate
        tau_p == TAU_P
        S_out == Div(Mul(s.density_core, plasma_volume(s)), tau_p)
        dn_dt == Div(S_in - S_out, plasma_volume(s))
    IN  [s EXCEPT !.density_core = s.density_core + Mul(dn_dt, dt)]

\* the loop over vertical_coil_currents that sums the vertical force
RECURSIVE VerticalForceFrom(_, _, _)
VerticalForceFrom(s, c, i) ==
    IF i > NUM_VERTICAL_COILS THEN 0
    ELSE Mul(Mul(c.vertical_coil_currents[i], s.plasma_current), Scale \div 10)
         + VerticalForceFrom(s, c, i + 1)

F_vertical(s, c) == VerticalForceFrom(s, c, 1)

\* mass_plasma in micrograms: density_core * 1e19 * plasma_volume *
\* (PROTON_MASS + ELECTRON_MASS) * 1e9
mass_plasma(s) ==
    Mul(Mul(s.density_core, plasma_volume(s)), PROTON_ELECTRON_MASS)

\* "Position evolution".  The force is taken in millinewton, so that
\* dVz_dt is in 1e6 m/s^2; dt is taken in milliseconds in the last term,
\* which brings it back to metres
PositionEvolution(s, c, dt) ==
    LET damping == DAMPING
        dVz_dt  == Div(Mul(F_vertical(s, c) - Mul(damping, s.vertical_position),
                           1000 * Scale),
                       mass_plasma(s))
        dt_ms   == Mul(dt, 1000 * Scale)
    IN  [s EXCEPT !.vertical_position =
            s.vertical_position + Mul(s.vertical_position, dt)
            + Mul(Mul(Mul(Scale \div 2, dVz_dt), dt_ms), dt_ms)]

\* (float)rand() / RAND_MAX
RandUnit(r) == Div(r * Scale, RAND_MAX * Scale)

\* StabilityUpdates that leaves safety_factor_q95 as the caller set it
StabilityUpdatesKeepQ95(s, c, r) ==
    [s EXCEPT
        !.beta_normalized = calculate_beta_normalized(s),
        !.mhd_activity_level =
            Mul(Scale \div 10, sinf(Mul(c.simulation_time, 100 * Scale)))
            + Mul(Scale \div 20, RandUnit(r))]

\* StabilityUpdates that adds the base term to mhd_activity_level ("+=")
StabilityUpdatesAccumulate(s, c, r) ==
    LET q95 == safety_factor_profile(950, s)
        s1  == [s EXCEPT !.safety_factor_q95 = q95]
        bN  == calculate_beta_normalized(s1)
    IN  [s1 EXCEPT
            !.beta_normalized = bN,
            !.mhd_activity_level =
                s.mhd_activity_level
                + Mul(Scale \div 10, sinf(Mul(c.simulation_time, 100 * Scale)))
                + Mul(Scale \div 20, RandUnit(r))]

\* "Stability updates": r is the value rand() returns
StabilityUpdates(s, c, r) ==
    LET q95 == safety_factor_profile(950, s)
        s1  == [s EXCEPT !.safety_factor_q95 = q95]
        bN  == calculate_beta_normalized(s1)
    IN  [s1 EXCEPT
            !.beta_normalized = bN,
            !.mhd_activity_level =
                Mul(Scale \div 10, sinf(Mul(c.simulation_time, 100 * Scale)))
                + Mul(Scale \div 20, RandUnit(r))]

\* DisruptionConditions as an if / else if chain: only the first condition
\* that holds adds its penalty
DisruptionConditionsElseIf(s) ==
    [s EXCEPT !.mhd_activity_level =
        IF s.safety_factor_q95 < SAFETY_FACTOR_Q95_MIN
        THEN s.mhd_activity_level + 500
        ELSE IF s.beta_normalized > BETA_NORMAL_LIMIT
        THEN s.mhd_activity_level + 300
        ELSE IF fabsf(s.vertical_position) > VERTICAL_DISPLACEMENT_MAX
        THEN s.mhd_activity_level + 700
        ELSE s.mhd_activity_level]

\* DisruptionConditions with the limits themselves counted as violations
DisruptionConditionsInclusive(s) ==
    LET m1 == IF s.safety_factor_q95 <= SAFETY_FACTOR_Q95_MIN
              THEN s.mhd_activity_level + 500 ELSE s.mhd_activity_level
        m2 == IF s.beta_normalized >= BETA_NORMAL_LIMIT
              THEN m1 + 300 ELSE m1
        m3 == IF fabsf(s.vertical_position) >= VERTICAL_DISPLACEMENT_MAX
              THEN m2 + 700 ELSE m2
    IN  [s EXCEPT !.mhd_activity_level = m3]

\* "Disruption conditions": three independent if statements
DisruptionConditions(s) ==
    LET m1 == IF s.safety_factor_q95 < SAFETY_FACTOR_Q95_MIN
              THEN s.mhd_activity_level + 500 ELSE s.mhd_activity_level
        m2 == IF s.beta_normalized > BETA_NORMAL_LIMIT
              THEN m1 + 300 ELSE m1
        m3 == IF fabsf(s.vertical_position) > VERTICAL_DISPLACEMENT_MAX
              THEN m2 + 700 ELSE m2
    IN  [s EXCEPT !.mhd_activity_level = m3]

\* advance_plasma_state that also counts the call in control->iteration_count
advance_plasma_state_counting(s, c, dt, r) ==
    [state |->
        DisruptionConditions(
            StabilityUpdates(
                PositionEvolution(
                    DensityEvolution(
                        EnergyBalance(
                            CurrentEvolution(s, c, dt), c, dt), c, dt), c, dt),
                c, r)),
     control |-> [c EXCEPT !.iteration_count = c.iteration_count + 1]]

\* advance_plasma_state with the stability metrics computed first, from the
\* state the call was given, and the density stepped before the energy
advance_plasma_state_reordered(s, c, dt, r) ==
    LET m == StabilityUpdates(s, c, r)
        e == PositionEvolution(
                 EnergyBalance(
                     DensityEvolution(
                         CurrentEvolution(s, c, dt), c, dt), c, dt), c, dt)
    IN  [state |->
            DisruptionConditions(
                [e EXCEPT !.safety_factor_q95 = m.safety_factor_q95,
                          !.beta_normalized = m.beta_normalized,
                          !.mhd_activity_level = m.mhd_activity_level]),
         control |-> c]

\* void advance_plasma_state(PlasmaState *state, PlasmaControlSystem *control,
\*                           float dt): what *state and *control hold when
\* it returns, r being the value rand() returns inside it
advance_plasma_state(s, c, dt, r) ==
    [state |->
        DisruptionConditions(
            StabilityUpdates(
                PositionEvolution(
                    DensityEvolution(
                        EnergyBalance(
                            CurrentEvolution(s, c, dt), c, dt), c, dt), c, dt),
                c, r)),
     control |-> c]

---------------------------------------------------------------------------
(* The records the caller owns, and the values it passes *)

\* PlasmaState: the fields advance_plasma_state reads or writes (the other
\* fields of the struct are never touched), with stored_energy, which the
\* function reaches through state
PlasmaStateOf(Ip, W, z) ==
    [plasma_current     |-> Ip,
     safety_factor_q95  |-> 2000,
     beta_normalized    |-> 0,
     vertical_position  |-> z,
     elongation         |-> 1700,
     temperature_core   |-> 15000,
     density_core       |-> 1000,
     mhd_activity_level |-> 900,
     stored_energy      |-> W]

InitialStates ==
    {PlasmaStateOf(Ip, W, z) :
        Ip \in {15000, 2000}, W \in {5000, 400000}, z \in {0, 173, 200}}

HeatingSystem(p, f, e) == [power |-> p, frequency |-> f, enabled |-> e]

\* heating_systems[NUM_HEATING_SYSTEMS]: one system on, none on, two on
OneSystemOn ==
    <<HeatingSystem(10000, 170, TRUE), HeatingSystem(0, 0, FALSE),
      HeatingSystem(0, 0, FALSE)>>

NoSystemOn ==
    <<HeatingSystem(10000, 170, FALSE), HeatingSystem(20000, 110, FALSE),
      HeatingSystem(5000, 60, FALSE)>>

TwoSystemsOn ==
    <<HeatingSystem(10000, 170, TRUE), HeatingSystem(20000, 110, FALSE),
      HeatingSystem(5000, 60, TRUE)>>

\* heating_systems, energy_confinement_time (5 s or 2 ms), simulation_time,
\* controller_state and fuel_injection_rate (in 1e19 particles per second)
OperatingPoints ==
    {<<OneSystemOn, 5000, 16, "PSQ_STATE_FLAT_TOP", 0>>,
     <<NoSystemOn, 5000, 47, "PSQ_STATE_RAMP_UP", 10000 * Scale>>,
     <<TwoSystemsOn, 2, 16, "PSQ_STATE_FLAT_TOP", 10000 * Scale>>,
     <<OneSystemOn, 2, 47, "PSQ_STATE_RAMP_UP", 0>>}

\* pf_coil_currents[0] and the (equal) vertical coil currents
CoilSettings == {<<0, 0>>, <<150000, 0>>, <<0, 1>>}

\* PlasmaControlSystem, without the embedded current_state and target_state
ControlOf(coils, point) ==
    [pf_coil_currents |->
        [i \in 1..NUM_PF_COILS |-> IF i = 1 THEN coils[1] ELSE 0],
     vertical_coil_currents   |-> [i \in 1..NUM_VERTICAL_COILS |-> coils[2]],
     horizontal_coil_currents |-> [i \in 1..NUM_HORIZONTAL_COILS |-> 0],
     heating_systems          |-> point[1],
     fuel_injection_rate      |-> point[5],
     impurity_injection_rate  |-> 0,
     controller_state         |-> point[4],
     simulation_time          |-> point[3],
     iteration_count          |-> 0,
     state_history            |-> <<>>,
     disruption_detected      |-> FALSE,
     mitigation_activated     |-> FALSE,
     disruption_warning_time  |-> 50,
     energy_confinement_time  |-> point[2],
     fusion_gain_Q            |-> 0,
     stored_energy            |-> 5000]

InitialControls ==
    {ControlOf(coils, point) :
        coils \in CoilSettings, point \in OperatingPoints}

NoKernel == [fn |-> "none"]

Init ==
    /\ state \in InitialStates
    /\ control \in InitialControls
    /\ prev = state
    /\ prevControl = control
    /\ dtIn = 0
    /\ randIn = 0
    /\ calls = 0
    /\ stable = TRUE
    /\ kernel = NoKernel

\* timesteps of one and three milliseconds
SmallSteps == {1, 3}

\* a timestep longer than tau_p
LongStep == 20 * Scale

\* The long timestep is taken only from a quiescent plasma (no vertical
\* offset or force, no fuelling, loop voltage balancing the resistive drop,
\* confinement time of seconds, stored energy within 500 MJ): elsewhere it
\* drives intermediate values beyond the range of the arithmetic
Quiescent(s, c) ==
    /\ s.vertical_position = 0
    /\ Abs(s.stored_energy) <= 500 * Scale
    /\ \A i \in 1..NUM_VERTICAL_COILS : c.vertical_coil_currents[i] = 0
    /\ c.fuel_injection_rate = 0
    /\ c.energy_confinement_time >= Scale
    /\ Mul(c.pf_coil_currents[1], Scale \div 10) = Mul(RP, s.plasma_current)

\* one call advance_plasma_state(&state, &control, dt) in which rand()
\* returns r
Advance(dt, r) ==
    /\ calls < MaxCalls
    /\ dt \in SmallSteps \/ Quiescent(state, control)
    /\ LET res == advance_plasma_state(state, control, dt, r)
       IN  /\ state' = res.state
           /\ control' = res.control
    /\ prev' = state
    /\ prevControl' = control
    /\ dtIn' = dt
    /\ randIn' = r
    /\ calls' = calls + 1
    /\ stable' = (stable /\ 2 * dt <= control.energy_confinement_time
                         /\ 2 * dt <= TAU_P)
    /\ UNCHANGED kernel

Next == \E dt \in SmallSteps \cup {LongStep}, r \in 0..RAND_MAX : Advance(dt, r)

Spec == Init /\ [][Next]_vars

---------------------------------------------------------------------------
(* The kernels called on their own *)

KernelInit ==
    /\ state = PlasmaStateOf(15000, 5000, 0)
    /\ control = ControlOf(<<0, 0>>,
                           <<OneSystemOn, 5000, 16, "PSQ_STATE_FLAT_TOP", 0>>)
    /\ prev = state
    /\ prevControl = control
    /\ dtIn = 0
    /\ randIn = 0
    /\ calls = 0
    /\ stable = TRUE
    /\ kernel = NoKernel

\* points (R, Z) of the poloidal plane, on and off the boundary r = 1
MajorRadii == {1200, 1400, 1500, 1600, 1800, 2000, 2160, 2200, 2400, 2500}
Heights == {-700, -600, -480, -300, 0, 100, 300, 480, 600}
ShapeParameters == {-1000, 1000, 2500}

CallGradShafranov(R, Z, p) ==
    /\ kernel' = [fn |-> "grad_shafranov_solution", R |-> R, Z |-> Z,
                  params |-> <<p>>,
                  result |-> grad_shafranov_solution(R, Z, <<p>>)]
    /\ UNCHANGED <<state, control, prev, prevControl, dtIn, randIn, calls, stable>>

QuenchTimes == {0, 1, 2, 10}
QuenchEnergies == {0, 5000, 400000}
ImpurityConcentrations == {0, 100, 1000, 2000}
QuenchCurrents == {-1000, 2000, 15000}
PlasmaResistances == {0, 1, 1000, 5000}

CallThermalQuench(t, E, imp) ==
    /\ kernel' = [fn |-> "thermal_quench_model", time_since_onset |-> t,
                  initial_energy |-> E, impurity_concentration |-> imp,
                  result |-> thermal_quench_model(t, E, imp)]
    /\ UNCHANGED <<state, control, prev, prevControl, dtIn, randIn, calls, stable>>

CallCurrentQuench(t, I0, Rp) ==
    /\ kernel' = [fn |-> "current_quench_model", time_since_TQ |-> t,
                  initial_current |-> I0, plasma_resistance |-> Rp,
                  result |-> current_quench_model(t, I0, Rp)]
    /\ UNCHANGED <<state, control, prev, prevControl, dtIn, randIn, calls, stable>>

KernelNext ==
    \/ \E R \in MajorRadii, Z \in Heights, p \in ShapeParameters :
          CallGradShafranov(R, Z, p)
    \/ \E t \in QuenchTimes, E \in QuenchEnergies, imp \in ImpurityConcentrations :
          CallThermalQuench(t, E, imp)
    \/ \E t \in QuenchTimes, I0 \in QuenchCurrents, Rp \in PlasmaResistances :
          CallCurrentQuench(t, I0, Rp)

KernelSpec == KernelInit /\ [][KernelNext]_vars

---------------------------------------------------------------------------
(* Properties of advance_plasma_state, checked under Spec *)

\* what the last call returns when it is started from plasma state s with
\* control record c, the timestep and the random draw being those of the call
Rerun(s, c) == advance_plasma_state(s, c, dtIn, randIn).state

\* 0.1 * sin(100 * simulation_time) + 0.05 * u of the last call
BaseMhd ==
    Mul(Scale \div 10, sinf(Mul(prevControl.simulation_time, 100 * Scale)))
    + Mul(Scale \div 20, RandUnit(randIn))

Q95Fires(s) == s.safety_factor_q95 < SAFETY_FACTOR_Q95_MIN
BetaFires(s) == s.beta_normalized > BETA_NORMAL_LIMIT
VerticalFires(s) == Abs(s.vertical_position) > VERTICAL_DISPLACEMENT_MAX

Penalties(s) ==
    (IF Q95Fires(s) THEN 500 ELSE 0) + (IF BetaFires(s) THEN 300 ELSE 0)
    + (IF VerticalFires(s) THEN 700 ELSE 0)

\* C1: after a call, mhd_activity_level is the base term plus 0.5 exactly
\* when the post-step q95 is below 3.0, plus 0.3 exactly when the post-step
\* beta_normalized is above 3.5, plus 0.7 exactly when |vertical_position|
\* is above 0.15; the comparisons are strict and the penalties add
C1_PenaltiesAdd ==
    calls > 0 => state.mhd_activity_level = BaseMhd + Penalties(state)

\* C1 witness: a call after which all three conditions fire (+1.5)
C1_AllThreeFire ==
    /\ calls > 0
    /\ Q95Fires(state) /\ BetaFires(state) /\ VerticalFires(state)
    /\ state.mhd_activity_level = BaseMhd + 1500

\* reached as well: a vertical position exactly on the limit, which does not fire
C1_OnTheLimit ==
    /\ calls > 0
    /\ Abs(state.vertical_position) = VERTICAL_DISPLACEMENT_MAX
    /\ Q95Fires(state)
    /\ state.mhd_activity_level = BaseMhd + 500

\* C2 as stated: started with safety_factor_q95 = 2.0, the call leaves
\* mhd_activity_level at least 0.5 above what it leaves when started with
\* safety_factor_q95 >= 3.0, all else equal
C2_InputQ95Penalised ==
    (calls > 0 /\ prev.safety_factor_q95 = 2000) =>
        \A q \in {3000, 4000} :
            state.mhd_activity_level >=
                Rerun([prev EXCEPT !.safety_factor_q95 = q],
                      prevControl).mhd_activity_level + 500

\* C2 amended: the safety_factor_q95 a call starts with has no effect on the
\* state it leaves; and against the run that starts with a plasma current
\* of 2 MA instead, a run whose recomputed q95 is below 3.0 where the other's
\* is not, the other two conditions firing alike, ends 0.5 higher (compared
\* for the short timesteps, which every plasma current of the model may take)
C2_RecomputedQ95Penalised ==
    calls > 0 =>
        /\ \A q \in {2000, 4000} \ {prev.safety_factor_q95} :
              Rerun([prev EXCEPT !.safety_factor_q95 = q], prevControl) = state
        /\ dtIn \in SmallSteps =>
              LET other == Rerun([prev EXCEPT !.plasma_current = 2000], prevControl)
              IN  (/\ Q95Fires(state) /\ ~Q95Fires(other)
                   /\ BetaFires(state) = BetaFires(other)
                   /\ VerticalFires(state) = VerticalFires(other))
                  => state.mhd_activity_level = other.mhd_activity_level + 500

\* C2 witness: a call started with safety_factor_q95 = 2.0 whose recomputed
\* q95 is above the minimum, and which adds no penalty at all
C2_LowInputNoPenalty ==
    /\ calls > 0
    /\ prev.safety_factor_q95 = 2000
    /\ state.safety_factor_q95 >= SAFETY_FACTOR_Q95_MIN
    /\ state.mhd_activity_level = BaseMhd

\* the end-to-end scenario of C3, after its one call
C3_Scenario ==
    /\ calls = 1
    /\ dtIn = 1
    /\ prev.plasma_current = 15000 /\ prev.density_core = 1000
    /\ prev.temperature_core = 15000 /\ prev.elongation = 1700
    /\ prev.stored_energy = 5000 /\ prev.vertical_position = 0
    /\ Cardinality({i \in 1..NUM_HEATING_SYSTEMS :
                        prevControl.heating_systems[i].enabled}) = 1
    /\ \A i \in 1..NUM_HEATING_SYSTEMS :
          prevControl.heating_systems[i].enabled =>
              prevControl.heating_systems[i].power = 10000
    /\ \A i \in 1..NUM_PF_COILS : prevControl.pf_coil_currents[i] = 0
    /\ \A i \in 1..NUM_VERTICAL_COILS : prevControl.vertical_coil_currents[i] = 0
    /\ \A i \in 1..NUM_HORIZONTAL_COILS : prevControl.horizontal_coil_currents[i] = 0
    /\ prevControl.energy_confinement_time >= 2 * Scale

\* C3: in the scenario the one call leaves plasma_current within 1% of 15.0
\* and stored_energy above 5.0
C3_EndToEnd ==
    C3_Scenario =>
        /\ 100 * Abs(state.plasma_current - 15000) <= 15000
        /\ state.stored_energy > 5000

\* C3 witness: the scenario, ending with 14.97 MA and 5.009 MJ
C3_ScenarioRun ==
    /\ C3_Scenario
    /\ state.plasma_current = 14970
    /\ state.stored_energy = 5009

\* C4 as stated: whatever the timesteps, density_core and temperature_core
\* are never negative after a call (every behaviour starts with
\* density_core > 0 and stored_energy >= 0 and has non-negative fuelling and
\* heating powers and a positive energy_confinement_time)
C4_NeverNegative ==
    calls > 0 => (state.density_core >= 0 /\ state.temperature_core >= 0)

\* C4 amended: as long as every timestep was at most half the energy
\* confinement time and at most half of tau_p, density_core is positive and
\* stored_energy and temperature_core are not negative
C4_NonNegativeWhileStable ==
    (calls > 0 /\ stable) =>
        /\ state.density_core > 0
        /\ state.stored_energy >= 0
        /\ state.temperature_core >= 0

\* C4 witness: two calls with a timestep of half the confinement time, each
\* of which halved the stored energy, the density rising with the fuelling
C4_StableRun ==
    /\ calls >= 2 /\ stable
    /\ 2 * dtIn = control.energy_confinement_time
    /\ state.stored_energy > 0
    /\ 3 * state.stored_energy < 2 * prev.stored_energy
    /\ state.temperature_core > 0
    /\ state.density_core > prev.density_core

\* the phases a call is compared under: normal operation and disruption
OtherPhases ==
    {"PSQ_STATE_RAMP_UP", "PSQ_STATE_FLAT_TOP", "PSQ_STATE_DISRUPTION",
     "PSQ_STATE_SAFE_SHUTDOWN"}

C6_LaterStepsReadEarlier ==
    calls > 0 =>
        LET dt_ms  == Mul(dtIn, 1000 * Scale)
            dVz_dt == Div(Mul(F_vertical(state, prevControl)
                              - Mul(DAMPING, prev.vertical_position),
                              1000 * Scale),
                          mass_plasma(state))
        IN  /\ state.plasma_current =
                   CurrentEvolution(prev, prevControl, dtIn).plasma_current
            /\ state.stored_energy =
                   prev.stored_energy
                   + Mul(P_heating(prevControl)
                         - Div(prev.stored_energy,
                               prevControl.energy_confinement_time), dtIn)
            /\ state.temperature_core =
                   CoreTemperature(state.stored_energy, prev.density_core,
                                   plasma_volume(prev))
            /\ state.density_core =
                   DensityEvolution(prev, prevControl, dtIn).density_core
            /\ state.vertical_position =
                   prev.vertical_position + Mul(prev.vertical_position, dtIn)
                   + Mul(Mul(Mul(Scale \div 2, dVz_dt), dt_ms), dt_ms)
            /\ state.safety_factor_q95 = safety_factor_profile(950, state)
            /\ state.beta_normalized = calculate_beta_normalized(state)
            /\ state.mhd_activity_level = BaseMhd + Penalties(state)

\* C6 witness: a call that changed current, stored energy, density and
\* position, so that values before and after the call differ
C6_EverythingMoved ==
    /\ calls > 0
    /\ state.plasma_current # prev.plasma_current
    /\ state.stored_energy # prev.stored_energy
    /\ state.density_core # prev.density_core
    /\ state.vertical_position # prev.vertical_position
    /\ Penalties(state) # Penalties(prev)

\* the sum of power over the enabled heating systems of control record c
EnabledPower(c) ==
    LET on(i) == IF c.heating_systems[i].enabled
                 THEN c.heating_systems[i].power ELSE 0
    IN  on(1) + on(2) + on(3)

\* C9: the energy balance uses the sum of power over the enabled heating
\* systems; the power and frequency of a disabled system change nothing in
\* the state a call leaves; with every system disabled the stored energy
\* changes by -stored_energy / energy_confinement_time * dt
C9_EnabledHeatingOnly ==
    calls > 0 =>
        LET P_loss == Div(prev.stored_energy, prevControl.energy_confinement_time)
        IN  /\ state.stored_energy =
                   prev.stored_energy + Mul(EnabledPower(prevControl) - P_loss, dtIn)
            /\ \A i \in 1..NUM_HEATING_SYSTEMS :
                  ~prevControl.heating_systems[i].enabled =>
                      Rerun(prev, [prevControl EXCEPT !.heating_systems[i] =
                                       HeatingSystem(77000, 999, FALSE)]) = state
            /\ (\A i \in 1..NUM_HEATING_SYSTEMS :
                    ~prevControl.heating_systems[i].enabled) =>
                   state.stored_energy = prev.stored_energy + Mul(-P_loss, dtIn)

\* C9 witness: a call with two systems enabled and a disabled one at 20 MW
C9_DisabledWithPower ==
    /\ calls > 0
    /\ \E i \in 1..NUM_HEATING_SYSTEMS :
          /\ ~prevControl.heating_systems[i].enabled
          /\ prevControl.heating_systems[i].power = 20000
    /\ Cardinality({i \in 1..NUM_HEATING_SYSTEMS :
                        prevControl.heating_systems[i].enabled}) = 2
    /\ state.stored_energy # prev.stored_energy

\* C10: mhd_activity_level after a call does not depend on its value before
\* the call, and lies in [-0.1, 1.65]
C10_MhdOverwritten ==
    calls > 0 =>
        /\ state.mhd_activity_level >= -100
        /\ state.mhd_activity_level <= 1650
        /\ \A m \in {0, 1650} \ {prev.mhd_activity_level} :
              Rerun([prev EXCEPT !.mhd_activity_level = m],
                    prevControl).mhd_activity_level = state.mhd_activity_level

\* C10 witness: a second call that starts from the largest value, 1.65, and
\* ends on it again
C10_TwiceAtTheTop ==
    /\ calls >= 2
    /\ prev.mhd_activity_level = 1650
    /\ state.mhd_activity_level = 1650

---------------------------------------------------------------------------
(* Properties of the kernels, checked under KernelSpec *)

\* C7: with a positive shape parameter, grad_shafranov_solution is zero at
\* every point of normalized radius r >= 1, the boundary r = 1 included, and
\* for r < 1 it is not negative and no point further out has a larger value
C7_FluxProfile ==
    (kernel.fn = "grad_shafranov_solution" /\ kernel.params[1] > 0) =>
        LET r == normalized_radius(kernel.R, kernel.Z)
        IN  /\ r >= Scale => kernel.result = 0
            /\ r < Scale =>
                  /\ kernel.result >= 0
                  /\ \A R2 \in MajorRadii, Z2 \in Heights :
                        normalized_radius(R2, Z2) >= r =>
                            grad_shafranov_solution(R2, Z2, kernel.params)
                                <= kernel.result

\* C7 witness: a point exactly on the boundary (R - R0 = 0.36, Z = 0.48,
\* r = 1), where the result is zero
C7_OnTheBoundary ==
    /\ kernel.fn = "grad_shafranov_solution"
    /\ kernel.params[1] > 0
    /\ kernel.R = 2160 /\ kernel.Z = 480
    /\ normalized_radius(kernel.R, kernel.Z) = Scale
    /\ kernel.result = 0

\* reached as well: an inner point with a positive flux below the axis value
C7_Inside ==
    /\ kernel.fn = "grad_shafranov_solution"
    /\ kernel.params[1] = 2500
    /\ normalized_radius(kernel.R, kernel.Z) > 0
    /\ kernel.result > 0 /\ kernel.result < 2500

\* C8: at zero elapsed time thermal_quench_model returns
\* initial_energy * (1 - 0.5 * impurity_concentration) and
\* current_quench_model returns initial_current
C8_QuenchAtOnset ==
    /\ (kernel.fn = "thermal_quench_model" /\ kernel.time_since_onset = 0) =>
           kernel.result =
               Mul(kernel.initial_energy,
                   Scale - Mul(Scale \div 2, kernel.impurity_concentration))
    /\ (kernel.fn = "current_quench_model" /\ kernel.time_since_TQ = 0) =>
           kernel.result = kernel.initial_current

\* C8 witness: the thermal quench of 5 MJ at its onset with impurity
\* concentration 0.1, which returns 4.75 MJ
C8_ThermalOnset ==
    /\ kernel.fn = "thermal_quench_model"
    /\ kernel.time_since_onset = 0
    /\ kernel.initial_energy = 5000
    /\ kernel.impurity_concentration = 100
    /\ kernel.result = 4750

\* reached as well: the current quench at its onset with a resistance of 5,
\* and a later time at which the current has decayed
C8_CurrentOnset ==
    /\ kernel.fn = "current_quench_model"
    /\ kernel.time_since_TQ = 0
    /\ kernel.plasma_resistance = 5000
    /\ kernel.result = 15000

C8_CurrentDecayed ==
    /\ kernel.fn = "current_quench_model"
    /\ kernel.time_since_TQ = 10
    /\ kernel.initial_current = 15000
    /\ kernel.result > 5000 /\ kernel.result < 6000

=============================================================================
